---------------------------- MODULE Spec2Model ----------------------------
(***************************************************************************)
(* Model of the two loaders of database_chatbot:                           *)
(*   - excelToDB.py: the survey loader (questions / survey_responses),     *)
(*   - excelToDB-tourism-shortColumnsNames.py: the LLM-assisted loader.    *)
(* Strings are sequences of one-character strings.                         *)
(***************************************************************************)
EXTENDS Integers, Sequences, FiniteSets, TLC

(***************************************************************************)
(* Bounds of the model.                                                    *)
(***************************************************************************)
MaxSheets == 2
MaxCols == 2
MaxRows == 2
MaxFaults == 1
MaxIndex == 54
MaxQLen == 4
MaxNameLen == 4
MaxTCols == 2
MaxTLen == 2
MaxTRows == 1

(***************************************************************************)
(* Characters and character classes of the regular expressions.            *)
(***************************************************************************)
Alphabet == <<"A","B","C","D","E","F","G","H","I","J","K","L","M",
              "N","O","P","Q","R","S","T","U","V","W","X","Y","Z">>

UpperChars == {Alphabet[i] : i \in 1..26}

LowerAlphabet == <<"a","b","c","d","e","f","g","h","i","j","k","l","m",
                   "n","o","p","q","r","s","t","u","v","w","x","y","z">>

LowerChars == {LowerAlphabet[i] : i \in 1..26}

DigitChars == {"0", "1", "2", "3"}

SpaceChars == {" "}

RECURSIVE DropWhile(_, _)
DropWhile(s, cls) ==
    IF s # <<>> /\ Head(s) \in cls THEN DropWhile(Tail(s), cls) ELSE s

RECURSIVE DropWhileEnd(_, _)
DropWhileEnd(s, cls) ==
    IF s # <<>> /\ s[Len(s)] \in cls
    THEN DropWhileEnd(SubSeq(s, 1, Len(s) - 1), cls)
    ELSE s

\* str.strip(): whitespace removed at both ends
Strip(s) == DropWhileEnd(DropWhile(s, SpaceChars), SpaceChars)

(***************************************************************************)
(* excelToDB.py: pure helpers                                              *)
(***************************************************************************)
\* variant of excel_col_index_to_letter that divides index, not index - 1
RECURSIVE excel_col_index_to_letter_plain(_)
excel_col_index_to_letter_plain(index) ==
    IF index > 0
    THEN excel_col_index_to_letter_plain(index \div 26)
             \o <<Alphabet[(index % 26) + 1]>>
    ELSE <<>>

\* while index > 0: index, remainder = divmod(index - 1, 26);
\*                  letter = chr(65 + remainder) + letter
RECURSIVE excel_col_index_to_letter(_)
excel_col_index_to_letter(index) ==
    IF index > 0
    THEN excel_col_index_to_letter((index - 1) \div 26)
             \o <<Alphabet[((index - 1) % 26) + 1]>>
    ELSE <<>>

\* re.match(r'^P\d+', col)
MatchesPrefix(col) ==
    /\ Len(col) >= 2
    /\ col[1] = "P"
    /\ col[2] \in DigitChars

\* re.sub(r'^P\d+_?', '', question_text): \d+ is greedy, then at most one "_"
RemovePrefix(s) ==
    IF MatchesPrefix(s)
    THEN LET rest == DropWhile(Tail(s), DigitChars)
         IN  IF rest # <<>> /\ Head(rest) = "_" THEN Tail(rest) ELSE rest
    ELSE s

clean_question_text(question_text) == Strip(RemovePrefix(question_text))


(***************************************************************************)
(* excelToDB-tourism-shortColumnsNames.py: snake_case_convert              *)
(***************************************************************************)
SeparatorChars == SpaceChars \cup {"-"}

RECURSIVE TakeWhile(_, _)
TakeWhile(s, cls) ==
    IF s # <<>> /\ Head(s) \in cls
    THEN <<Head(s)>> \o TakeWhile(Tail(s), cls)
    ELSE <<>>

\* line 30: re.sub(r'[\s\-]+', '_', name)
RECURSIVE ReplaceSeparators(_)
ReplaceSeparators(s) ==
    IF s = <<>> THEN <<>>
    ELSE IF Head(s) \in SeparatorChars
         THEN <<"_">> \o ReplaceSeparators(DropWhile(s, SeparatorChars))
         ELSE <<Head(s)>> \o ReplaceSeparators(Tail(s))

\* line 32: re.sub('(.)([A-Z][a-z]+)', r'\1_\2', name); matches are found
\* from left to right and do not overlap, [a-z]+ is greedy
RECURSIVE SplitCamel(_)
SplitCamel(s) ==
    IF s = <<>> THEN <<>>
    ELSE IF Len(s) >= 3 /\ s[2] \in UpperChars /\ s[3] \in LowerChars
         THEN LET lows == TakeWhile(SubSeq(s, 3, Len(s)), LowerChars)
              IN  <<s[1], "_", s[2]>> \o lows
                      \o SplitCamel(SubSeq(s, 3 + Len(lows), Len(s)))
         ELSE <<Head(s)>> \o SplitCamel(Tail(s))

\* line 33: re.sub('([a-z0-9])([A-Z])', r'\1_\2', name)
RECURSIVE SplitUpper(_)
SplitUpper(s) ==
    IF s = <<>> THEN <<>>
    ELSE IF Len(s) >= 2 /\ s[1] \in LowerChars \cup DigitChars
                        /\ s[2] \in UpperChars
         THEN <<s[1], "_", s[2]>> \o SplitUpper(SubSeq(s, 3, Len(s)))
         ELSE <<Head(s)>> \o SplitUpper(Tail(s))

\* line 35: name.lower()
Lower(s) ==
    [i \in 1..Len(s) |->
        IF s[i] \in UpperChars
        THEN LowerAlphabet[CHOOSE k \in 1..26 : Alphabet[k] = s[i]]
        ELSE s[i]]

\* line 37: re.sub(r'__+', '_', name)
RECURSIVE CollapseUnderscores(_)
CollapseUnderscores(s) ==
    IF s = <<>> THEN <<>>
    ELSE IF Head(s) = "_"
         THEN <<"_">> \o CollapseUnderscores(DropWhile(s, {"_"}))
         ELSE <<Head(s)>> \o CollapseUnderscores(Tail(s))

\* line 39: name.strip('_')
StripUnderscores(s) == DropWhileEnd(DropWhile(s, {"_"}), {"_"})

\* variant of snake_case_convert that replaces whitespace and hyphens last
snake_case_convert_late(name) ==
    ReplaceSeparators(
        StripUnderscores(CollapseUnderscores(Lower(SplitUpper(SplitCamel(name))))))

\* lines 27-40
snake_case_convert(name) ==
    StripUnderscores(
        CollapseUnderscores(Lower(SplitUpper(SplitCamel(ReplaceSeparators(name))))))

(***************************************************************************)
(* excelToDB.py: the survey loader                                         *)
(***************************************************************************)
VARIABLES
    pc,            \* position of the script
    qExists,       \* table questions exists in the destination
    rExists,       \* table survey_responses exists in the destination
    questions,     \* rows of table questions, in primary-key order
    responses,     \* rows of table survey_responses, in primary-key order
    nextQId,       \* AUTO_INCREMENT counter of questions
    committed,     \* the transaction of engine.begin() was committed
    nSheets,       \* len(xls.sheet_names)
    sheetIdx,      \* position of the sheet loop (1-based)
    df,            \* the DataFrame of the current worksheet: its columns, its
                   \* number of rows, and the rows iterrows() has yielded
    colsLeft,      \* columns the rest of the workbook may still hold
    rowsLeft,      \* data rows the rest of the workbook may still hold
    todo,          \* insert_questions_get_ids: data_to_insert
    qpos,          \* insert_questions_get_ids: position in data_to_insert
    question_ids,  \* original column label -> question id
    rowIdx,        \* insert_responses: position of df.iterrows()
    batch,         \* insert_responses: data_to_insert
    faults,        \* store / reader errors injected so far
    attempted,     \* history: sheets for which "Starting processing" was logged
    errSheets,     \* history: sheets for which logger.error was called
    issued,        \* history: INSERT statements sent to the store
    qBase,         \* history: Len(questions) when the current sheet started
    rBase,         \* history: Len(responses) when the current sheet started
    srcRecords     \* history: (row, prefixed column) pairs of the sheets read

\* excelToDB-tourism-shortColumnsNames.py: the LLM-assisted loader
VARIABLES
    tpc,           \* position of the script
    raw,           \* df.columns as read from the CSV header
    dtypes,        \* df.dtypes, by column position
    nrows,         \* number of data rows of the CSV
    reply,         \* outcome of client.chat.completions.create
    dfColumns,     \* df.columns after line 109
    table,         \* destination table tourism_data
    table0,        \* history: the destination table before the run
    ddl,           \* history: DDL statements sent to the store
    txRows,        \* rows inserted in the open transaction
    envFault,      \* history: the store, the driver or the reader raised
    result         \* what the script logged at its end

\* the inputs and results of the pure functions applied on their own
VARIABLES
    hpc,           \* position of the harness
    hLabel,        \* a column label
    hIndex,        \* enumerate() index of the column
    hOut           \* results

tvars == <<tpc, raw, dtypes, nrows, reply, dfColumns, table, table0, ddl, txRows,
           envFault, result>>

hvars == <<hpc, hLabel, hIndex, hOut>>

svars == <<pc, qExists, rExists, questions, responses, nextQId, committed,
           nSheets, sheetIdx, df, colsLeft, rowsLeft, todo, qpos, question_ids,
           rowIdx, batch, faults, attempted, errSheets, issued, qBase, rBase,
           srcRecords>>

vars == <<svars, tvars, hvars>>

\* Column labels of the worksheets: two of the prefix convention (one without
\* an underscore after the digits) and one outside it.  A label may recur in
\* another worksheet.
SheetLabels ==
    { <<"P","1","_","X">>, <<"P","2","Y">>, <<"I","D">> }

NaN == "NaN"

NULL == "NULL"

Cells == {"v", NaN}

\* df.columns: pandas makes the labels of one frame distinct
IsInjective(s) == \A i, j \in 1..Len(s) : s[i] = s[j] => i = j

ColumnLists ==
    UNION { { s \in [1..n -> SheetLabels] : IsInjective(s) } : n \in 0..MaxCols }

\* the rows a frame of these columns may hold: a cell is a value or missing
\* (the cells of columns outside the convention are never read: one value)
RowsOf(cols) ==
    { r \in [1..Len(cols) -> Cells] :
        \A c \in 1..Len(cols) : ~MatchesPrefix(cols[c]) => r[c] = "v" }

EmptyFrame == [columns |-> <<>>, nrows |-> 0, rows |-> <<>>]

\* lines 75-79, one turn of the loop over enumerate(df.columns): an item
\* for a column whose label matches ^P\d+
ColumnItems(col, index) ==
    IF MatchesPrefix(col)
    THEN << [original_question |-> col,
             question |-> clean_question_text(col),
             col_letter |-> excel_col_index_to_letter(index + 1)] >>
    ELSE <<>>

\* lines 73-79
RECURSIVE QuestionItems(_, _)
QuestionItems(columns, index) ==
    IF index >= Len(columns) THEN <<>>
    ELSE ColumnItems(columns[index + 1], index)
             \o QuestionItems(columns, index + 1)

\* SELECT id FROM questions WHERE question_text = :question ... fetchone()[0]:
\* the scan of the primary key returns the matching row of lowest id first
SelectId(rows, text) ==
    LET hits == { i \in 1..Len(rows) : rows[i].question_text = text }
    IN  rows[CHOOSE i \in hits : \A j \in hits : i <= j].id

\* variant of NullIfMissing that stores the missing-value marker as it is
NullIfMissing_keep(response) == response

\* line 102: response if not pd.isnull(response) else None
NullIfMissing(response) == IF response = NaN THEN NULL ELSE response

\* lines 100-103: the records of one row, for the columns in question_ids
RECURSIVE RowRecords(_, _, _, _)
RowRecords(columns, row, ids, c) ==
    IF c > Len(columns) THEN <<>>
    ELSE (IF columns[c] \in DOMAIN ids
          THEN << [question_id |-> ids[columns[c]],
                   response |-> NullIfMissing(row[c])] >>
          ELSE <<>>)
            \o RowRecords(columns, row, ids, c + 1)

\* create_tables, lines 47-65: k statements succeed before one raises
\* (k = 4: none raises); DROP survey_responses, DROP questions,
\* CREATE questions, CREATE survey_responses
QuestionsAfter(k, q) == IF k >= 3 THEN TRUE ELSE IF k >= 2 THEN FALSE ELSE q

ResponsesAfter(k, r) == IF k >= 4 THEN TRUE ELSE IF k >= 1 THEN FALSE ELSE r

\* the state before line 117; the tables may be left from an earlier run
\* (their old rows are not part of this load and are not modelled)
SurveyStart(start) ==
    /\ pc = start
    /\ qExists \in BOOLEAN
    /\ rExists = qExists
    /\ questions = <<>>
    /\ responses = <<>>
    /\ nextQId = 1
    /\ committed = FALSE
    /\ nSheets = 0
    /\ sheetIdx = 0
    /\ df = EmptyFrame
    /\ colsLeft = MaxCols
    /\ rowsLeft = MaxRows
    /\ todo = <<>>
    /\ qpos = 0
    /\ question_ids = <<>>
    /\ rowIdx = 0
    /\ batch = <<>>
    /\ faults = 0
    /\ attempted = <<>>
    /\ errSheets = {}
    /\ issued = 0
    /\ qBase = 0
    /\ rBase = 0
    /\ srcRecords = 0

\* the other script is not running
TourismIdle ==
    /\ tpc = "idle"
    /\ raw = <<>>
    /\ dtypes = <<>>
    /\ nrows = 0
    /\ reply = [ok |-> FALSE, names |-> <<>>]
    /\ dfColumns = <<>>
    /\ table = [exists |-> FALSE, cols |-> <<>>, rows |-> 0]
    /\ table0 = table
    /\ ddl = <<>>
    /\ txRows = 0
    /\ envFault = FALSE
    /\ result = "none"

HarnessIdle ==
    /\ hpc = "idle"
    /\ hLabel = <<>>
    /\ hIndex = 0
    /\ hOut = <<>>

Init == SurveyStart("create") /\ TourismIdle /\ HarnessIdle

\* line 118 and lines 44-68: the SQLAlchemyError is logged and swallowed
CreateTables ==
    /\ pc = "create"
    /\ \E k \in 0..4 :
         /\ k < 4 => faults < MaxFaults
         /\ faults' = IF k < 4 THEN faults + 1 ELSE faults
         /\ qExists' = QuestionsAfter(k, qExists)
         /\ rExists' = ResponsesAfter(k, rExists)
    /\ pc' = "open"
    /\ UNCHANGED <<questions, responses, nextQId, committed, nSheets, sheetIdx,
                   df, colsLeft, rowsLeft, todo, qpos, question_ids, rowIdx,
                   batch, attempted, errSheets, issued, qBase, rBase, srcRecords>>
    /\ UNCHANGED <<tvars, hvars>>

\* line 119: pd.ExcelFile(excel_file)
OpenWorkbook ==
    /\ pc = "open"
    /\ \E n \in 1..MaxSheets :
         /\ nSheets' = n
         /\ sheetIdx' = 1
         /\ pc' = "loop"
    /\ UNCHANGED <<qExists, rExists, questions, responses, nextQId, committed,
                   df, colsLeft, rowsLeft, todo, qpos, question_ids, rowIdx,
                   batch, faults, attempted, errSheets, issued, qBase, rBase,
                   srcRecords>>
    /\ UNCHANGED <<tvars, hvars>>

\* line 119 raising: the exception leaves the with block, which rolls back
OpenWorkbookFails ==
    /\ pc = "open"
    /\ faults < MaxFaults
    /\ faults' = faults + 1
    /\ pc' = "crashed"
    /\ questions' = <<>>
    /\ responses' = <<>>
    /\ UNCHANGED <<qExists, rExists, nextQId, committed, nSheets, sheetIdx, df,
                   colsLeft, rowsLeft, todo, qpos, question_ids, rowIdx, batch,
                   attempted, errSheets, issued, qBase, rBase, srcRecords>>
    /\ UNCHANGED <<tvars, hvars>>

\* lines 120-124 and 71-81: the sheet is read and its question items built
ReadSheet ==
    /\ pc = "loop"
    /\ sheetIdx <= nSheets
    /\ attempted' = Append(attempted, sheetIdx)
    /\ \E cols \in ColumnLists, n \in 0..rowsLeft :
         LET items == QuestionItems(cols, 0)
         IN  /\ Len(cols) <= colsLeft
             /\ df' = [columns |-> cols, nrows |-> n, rows |-> <<>>]
             /\ colsLeft' = colsLeft - Len(cols)
             /\ rowsLeft' = rowsLeft - n
             /\ todo' = items
             /\ srcRecords' = srcRecords + n * Len(items)
             /\ pc' = IF items # <<>> THEN "questions" ELSE "responses"
    /\ qpos' = 1
    /\ question_ids' = <<>>
    /\ rowIdx' = 1
    /\ batch' = <<>>
    /\ qBase' = Len(questions)
    /\ rBase' = Len(responses)
    /\ UNCHANGED <<qExists, rExists, questions, responses, nextQId, committed,
                   nSheets, sheetIdx, faults, errSheets, issued>>
    /\ UNCHANGED <<tvars, hvars>>

\* variant of SheetFailed in which the error leaves the sheet loop
SheetFailed_halt ==
    /\ sheetIdx' = sheetIdx
    /\ errSheets' = errSheets \cup {sheetIdx}
    /\ pc' = "crashed"

\* lines 127-128: the sheet loop logs the error and goes on with the next sheet
SheetFailed ==
    /\ sheetIdx' = sheetIdx + 1
    /\ errSheets' = errSheets \cup {sheetIdx}
    /\ pc' = "loop"

\* line 123 (or the column loop of lines 74-79) raising
ReadSheetFails ==
    /\ pc = "loop"
    /\ sheetIdx <= nSheets
    /\ faults < MaxFaults
    /\ faults' = faults + 1
    /\ attempted' = Append(attempted, sheetIdx)
    /\ SheetFailed
    /\ UNCHANGED <<qExists, rExists, questions, responses, nextQId, committed,
                   nSheets, df, colsLeft, rowsLeft, todo, qpos, question_ids,
                   rowIdx, batch, issued, qBase, rBase, srcRecords>>
    /\ UNCHANGED <<tvars, hvars>>

\* lines 93-95: the SQLAlchemyError is logged, the ids found so far returned
\* and insert_responses (line 125) runs with them
QuestionsAbort ==
    /\ errSheets' = errSheets \cup {sheetIdx}
    /\ pc' = "responses"
    /\ UNCHANGED <<question_ids, qpos>>

\* lines 83-92, one turn of the loop: INSERT ... ON DUPLICATE KEY UPDATE, then
\* SELECT id.  The only key of questions is its AUTO_INCREMENT id, which the
\* INSERT never supplies: no duplicate key arises and a row is always added.
InsertQuestion ==
    /\ pc = "questions"
    /\ qpos <= Len(todo)
    /\ issued' = issued + 1
    /\ LET item == todo[qpos]
           row == [id |-> nextQId,
                   question_text |-> item.question,
                   excel_column_position |-> item.col_letter]
       IN  \/ \* the INSERT raises
              /\ ~qExists \/ faults < MaxFaults
              /\ faults' = IF qExists THEN faults + 1 ELSE faults
              /\ QuestionsAbort
              /\ UNCHANGED <<questions, nextQId>>
           \/ \* the INSERT succeeds, the SELECT raises
              /\ qExists
              /\ faults < MaxFaults
              /\ faults' = faults + 1
              /\ questions' = Append(questions, row)
              /\ nextQId' = nextQId + 1
              /\ QuestionsAbort
           \/ \* both succeed
              /\ qExists
              /\ questions' = Append(questions, row)
              /\ nextQId' = nextQId + 1
              /\ question_ids' =
                     (item.original_question :> SelectId(questions', item.question))
                         @@ question_ids
              /\ qpos' = qpos + 1
              /\ pc' = IF qpos = Len(todo) THEN "responses" ELSE "questions"
              /\ UNCHANGED <<faults, errSheets>>
    /\ UNCHANGED <<qExists, rExists, responses, committed, nSheets, sheetIdx,
                   df, colsLeft, rowsLeft, todo, rowIdx, batch, attempted,
                   qBase, rBase, srcRecords>>
    /\ UNCHANGED <<tvars, hvars>>

\* lines 99-115, one turn of the loop over the rows (the cells of the row are
\* drawn when iterrows() yields it): the records of the row are appended to
\* data_to_insert, which is sent if it is not empty and is reset only when
\* the INSERT succeeded
InsertRow ==
    /\ pc = "responses"
    /\ rowIdx <= df.nrows
    /\ rowIdx' = rowIdx + 1
    /\ \E row \in RowsOf(df.columns) :
         LET data_to_insert ==
                 batch \o RowRecords(df.columns, row, question_ids, 1)
         IN  /\ df' = [df EXCEPT !.rows = Append(@, row)]
             /\ \/ /\ data_to_insert = <<>>
                   /\ UNCHANGED <<responses, batch, faults, errSheets, issued>>
                \/ /\ data_to_insert # <<>>
                   /\ rExists
                   /\ responses' = responses \o data_to_insert
                   /\ batch' = <<>>
                   /\ issued' = issued + 1
                   /\ UNCHANGED <<faults, errSheets>>
                \/ /\ data_to_insert # <<>>
                   /\ ~rExists \/ faults < MaxFaults
                   /\ faults' = IF rExists THEN faults + 1 ELSE faults
                   /\ batch' = data_to_insert
                   /\ errSheets' = errSheets \cup {sheetIdx}
                   /\ issued' = issued + 1
                   /\ UNCHANGED responses
    /\ UNCHANGED <<pc, qExists, rExists, questions, nextQId, committed, nSheets,
                   sheetIdx, colsLeft, rowsLeft, todo, qpos, question_ids,
                   attempted, qBase, rBase, srcRecords>>
    /\ UNCHANGED <<tvars, hvars>>

\* line 126: "Completed processing sheet"; the locals of the turn are dead
SheetDone ==
    /\ pc = "responses"
    /\ rowIdx > df.nrows
    /\ sheetIdx' = sheetIdx + 1
    /\ pc' = "loop"
    /\ df' = EmptyFrame
    /\ todo' = <<>>
    /\ qpos' = 0
    /\ question_ids' = <<>>
    /\ rowIdx' = 0
    /\ batch' = <<>>
    /\ UNCHANGED <<qExists, rExists, questions, responses, nextQId, committed,
                   nSheets, colsLeft, rowsLeft, faults, attempted, errSheets,
                   issued, qBase, rBase, srcRecords>>
    /\ UNCHANGED <<tvars, hvars>>

\* line 117: the with block of engine.begin() ends without an exception
Commit ==
    /\ pc = "loop"
    /\ sheetIdx > nSheets
    /\ committed' = TRUE
    /\ pc' = "done"
    /\ UNCHANGED <<qExists, rExists, questions, responses, nextQId, nSheets,
                   sheetIdx, df, colsLeft, rowsLeft, todo, qpos, question_ids,
                   rowIdx, batch, faults, attempted, errSheets, issued, qBase,
                   rBase, srcRecords>>
    /\ UNCHANGED <<tvars, hvars>>

Next ==
    \/ CreateTables
    \/ OpenWorkbook
    \/ OpenWorkbookFails
    \/ ReadSheet
    \/ ReadSheetFails
    \/ InsertQuestion
    \/ InsertRow
    \/ SheetDone
    \/ Commit

Spec == Init /\ [][Next]_vars

(***************************************************************************)
(* Claims about the survey loader                                          *)
(***************************************************************************)

\* C1: registering the same cleaned question label twice leaves exactly one
\* row with that label in questions, and both registrations get the same id.
C1_UpsertKeepsOneRow ==
    /\ \A i, j \in 1..Len(questions) :
          questions[i].question_text = questions[j].question_text => i = j
    /\ \A c, d \in DOMAIN question_ids :
          clean_question_text(c) = clean_question_text(d)
              => question_ids[c] = question_ids[d]

\* C2: when the run has ended, the destination holds every response record
\* of the source or none of them.
C2_AllOrNothing ==
    pc \in {"done", "crashed"} => Len(responses) \in {0, srcRecords}

\* steps the current sheet can still take, and steps the run can still take
SheetSteps ==
    CASE pc = "questions" -> (Len(todo) - qpos + 1) + df.nrows + 1
      [] pc = "responses" -> (df.nrows - rowIdx + 1) + 1
      [] OTHER -> 0

Rank ==
    LET K == MaxCols + MaxRows + 2
    IN  CASE pc = "create" -> MaxSheets * K + 3
          [] pc = "open" -> MaxSheets * K + 2
          [] pc = "loop" -> (nSheets - sheetIdx + 1) * K + 1
          [] pc \in {"questions", "responses"} ->
                 (nSheets - sheetIdx) * K + 1 + SheetSteps
          [] OTHER -> 0

Opened == pc \in {"loop", "questions", "responses", "done"}

\* C3: once the workbook is open, the sheets are attempted one after another
\* in workbook order; a sheet whose processing failed has its error logged
\* and the loop goes on: the run never stops before its end (every step
\* brings the end nearer), and at the end every sheet has been attempted.
C3_EverySheetAttempted ==
    /\ [](/\ \A k \in 1..Len(attempted) : attempted[k] = k
          /\ errSheets \subseteq {attempted[k] : k \in 1..Len(attempted)}
          /\ pc \in {"loop", "questions", "responses"} => ENABLED Next
          /\ Len(attempted) > 0 => Opened
          /\ pc = "done" => Len(attempted) = nSheets)
    /\ [][Rank' < Rank]_vars

\* a sheet failed and the sheet after it was attempted
C3_Witness ==
    /\ Len(attempted) >= 2
    /\ 1 \in errSheets

\* the positions, in df.columns, of the columns of the prefix convention
PrefixedColumns(cols) ==
    LET F[c \in 0..Len(cols)] ==
            IF c = 0 THEN <<>>
            ELSE IF MatchesPrefix(cols[c]) THEN Append(F[c - 1], c) ELSE F[c - 1]
    IN  F[Len(cols)]

\* a sheet whose rows were all iterated without a logged error
SheetProcessed ==
    /\ pc = "responses"
    /\ rowIdx > df.nrows
    /\ sheetIdx \notin errSheets

\* C6: a worksheet processed without insert errors has added one registry
\* row per column of the prefix convention (none for the other columns) and
\* one response record per (data row, prefixed column) pair, in row order,
\* carrying the id the registration returned for the column (the id of a
\* registry row of the column's cleaned label) and the cell value, NULL for a
\* missing cell.
C6_OneRecordPerCell ==
    SheetProcessed =>
        LET pcols == PrefixedColumns(df.columns)
            n == Len(pcols)
            got == SubSeq(responses, rBase + 1, Len(responses))
        IN  /\ Len(questions) = qBase + n
            /\ \A k \in 1..n :
                  /\ questions[qBase + k].question_text
                        = clean_question_text(df.columns[pcols[k]])
                  /\ questions[qBase + k].excel_column_position
                        = excel_col_index_to_letter(pcols[k])
            /\ Len(got) = df.nrows * n
            /\ \A r \in 1..df.nrows, k \in 1..n :
                  LET rec == got[(r - 1) * n + k]
                      cell == df.rows[r][pcols[k]]
                  IN  /\ rec.response = (IF cell = NaN THEN NULL ELSE cell)
                      /\ rec.question_id = question_ids[df.columns[pcols[k]]]
                      /\ \E i \in 1..Len(questions) :
                            /\ questions[i].id = rec.question_id
                            /\ questions[i].question_text
                                  = clean_question_text(df.columns[pcols[k]])

\* a processed sheet with a column outside the convention, a missing cell
\* and a present cell
C6_Witness ==
    /\ SheetProcessed
    /\ \E c \in 1..Len(df.columns) : ~MatchesPrefix(df.columns[c])
    /\ \E k \in rBase + 1..Len(responses) : responses[k].response = NULL
    /\ \E k \in rBase + 1..Len(responses) : responses[k].response = "v"

\* C10: after the first error logged for a worksheet, no further INSERT is
\* issued for that worksheet.
C10_NoInsertAfterError ==
    [][(sheetIdx \in errSheets /\ sheetIdx' = sheetIdx) => issued' = issued]_vars


(***************************************************************************)
(* excelToDB-tourism-shortColumnsNames.py: the LLM-assisted loader         *)
(***************************************************************************)
\* the survey loader is not running
SurveyIdle == SurveyStart("idle") /\ ~qExists

\* characters of the CSV header labels and of the collaborator's names
TChars == {"a", "A", " "}

TLabels == UNION { [1..n -> TChars] : n \in 1..MaxTLen }

\* df.columns of read_csv: pandas makes the header labels distinct
Headers == UNION { { h \in [1..n -> TLabels] : IsInjective(h) } : n \in 1..MaxTCols }

\* str(df.dtypes[col]) for a column read by read_csv: a mapped type (int64,
\* float64 and bool behave as object does) or one that is not, as uint64,
\* which read_csv infers for integers beyond int64
InferredTypes == {"object", "uint64"}

\* lines 79-86
dtype_mapping ==
    [t \in {"int64", "float64", "object", "bool", "datetime64[ns]", "timedelta[ns]"} |->
        CASE t = "int64" -> "BIGINT"
          [] t = "float64" -> "DECIMAL(10,2)"
          [] t = "object" -> "TEXT"
          [] t = "bool" -> "BOOLEAN"
          [] t = "datetime64[ns]" -> "DATETIME"
          [] t = "timedelta[ns]" -> "TIME"]

\* line 52-56: the call raises, or answers a list of names of any length
Replies ==
    { [ok |-> FALSE, names |-> <<>>] }
        \cup { [ok |-> TRUE, names |-> n] :
                 n \in UNION { [1..k -> TLabels] : k \in 1..MaxTCols } }

NoTable == [exists |-> FALSE, cols |-> <<>>, rows |-> 0]

\* tourism_data as an earlier run left it
OldTable == [exists |-> TRUE, cols |-> << <<"o", "l", "d">> >>, rows |-> 1]

\* lines 42-63: the names of the reply, or of the columns when the call
\* raised, each converted to snake case
generate_natural_column_names(cols, r) ==
    IF r.ok
    THEN [i \in 1..Len(r.names) |-> snake_case_convert(r.names[i])]
    ELSE [i \in 1..Len(cols) |-> snake_case_convert(cols[i])]

\* line 88: dtype_mapping[str(df.dtypes[col])] raises KeyError for a type
\* that is no key, and for a label held by two columns (df.dtypes[col] is
\* then a Series)
DefinitionsFail(cols, types) ==
    \/ \E c \in 1..Len(cols) : types[c] \notin DOMAIN dtype_mapping
    \/ ~IsInjective(cols)

\* line 90: the store rejects a column with an empty name
CreateRejected(cols) == \E c \in 1..Len(cols) : cols[c] = <<>>

TourismInit ==
    /\ SurveyIdle
    /\ HarnessIdle
    /\ tpc = "connect"
    /\ raw = <<>>
    /\ dtypes = <<>>
    /\ nrows = 0
    /\ reply = [ok |-> FALSE, names |-> <<>>]
    /\ dfColumns = <<>>
    /\ table \in {NoTable, OldTable}
    /\ table0 = table
    /\ ddl = <<>>
    /\ txRows = 0
    /\ envFault = FALSE
    /\ result = "none"

\* lines 124-125: the exception leaves the with block (rollback) and is
\* logged by the main block
RunFails ==
    /\ txRows' = 0
    /\ result' = "failed"
    /\ tpc' = "end"

\* lines 118-119: setup_database_connection() and engine.begin()
Connect ==
    /\ tpc = "connect"
    /\ \/ /\ tpc' = "read"
          /\ UNCHANGED <<txRows, result, envFault>>
       \/ /\ envFault' = TRUE
          /\ RunFails
    /\ UNCHANGED <<raw, dtypes, nrows, reply, dfColumns, table, table0, ddl>>
    /\ UNCHANGED <<svars, hvars>>

\* line 108: pd.read_csv
ReadCsv ==
    /\ tpc = "read"
    /\ \/ /\ \E h \in Headers :
               /\ raw' = h
               /\ dtypes' \in [1..Len(h) -> InferredTypes]
          /\ nrows' \in 1..MaxTRows
          /\ tpc' = "names"
          /\ UNCHANGED <<txRows, result, envFault>>
       \/ /\ envFault' = TRUE
          /\ RunFails
          /\ UNCHANGED <<raw, dtypes, nrows>>
    /\ UNCHANGED <<reply, dfColumns, table, table0, ddl>>
    /\ UNCHANGED <<svars, hvars>>

\* line 109: df.columns = generate_natural_column_names(df.columns.tolist());
\* the assignment raises ValueError when the number of names is not the
\* number of columns
GenerateNames ==
    /\ tpc = "names"
    /\ \E r \in Replies :
         LET names == generate_natural_column_names(raw, r)
         IN  /\ reply' = r
             /\ \/ /\ Len(names) = Len(raw)
                   /\ dfColumns' = names
                   /\ tpc' = "create"
                   /\ UNCHANGED <<txRows, result>>
                \/ /\ Len(names) # Len(raw)
                   /\ RunFails
                   /\ UNCHANGED dfColumns
    /\ UNCHANGED <<raw, dtypes, nrows, table, table0, ddl, envFault>>
    /\ UNCHANGED <<svars, hvars>>

\* lines 76-94: DROP TABLE IF EXISTS, then the column definitions, then
\* CREATE TABLE.  A DDL statement of the store commits at once: a later
\* rollback does not bring a dropped table back.
CreateTable ==
    /\ tpc = "create"
    /\ \/ \* the DROP raises
          /\ ddl' = Append(ddl, "DROP")
          /\ envFault' = TRUE
          /\ RunFails
          /\ UNCHANGED table
       \/ \* the DROP succeeds, line 88 raises KeyError
          /\ DefinitionsFail(dfColumns, dtypes)
          /\ ddl' = Append(ddl, "DROP")
          /\ table' = NoTable
          /\ RunFails
          /\ UNCHANGED envFault
       \/ \* the CREATE raises
          /\ ~DefinitionsFail(dfColumns, dtypes)
          /\ ddl' = ddl \o <<"DROP", "CREATE">>
          /\ table' = NoTable
          /\ envFault' = (envFault \/ ~CreateRejected(dfColumns))
          /\ RunFails
       \/ \* the table is created
          /\ ~DefinitionsFail(dfColumns, dtypes)
          /\ ~CreateRejected(dfColumns)
          /\ ddl' = ddl \o <<"DROP", "CREATE">>
          /\ table' = [exists |-> TRUE, cols |-> dfColumns, rows |-> 0]
          /\ tpc' = "insert"
          /\ UNCHANGED <<txRows, result, envFault>>
    /\ UNCHANGED <<raw, dtypes, nrows, reply, dfColumns, table0>>
    /\ UNCHANGED <<svars, hvars>>

\* lines 96-103: df.to_sql(..., if_exists='append') in the open transaction
InsertData ==
    /\ tpc = "insert"
    /\ \/ /\ txRows' = nrows
          /\ tpc' = "commit"
          /\ UNCHANGED <<result, envFault>>
       \/ /\ envFault' = TRUE
          /\ RunFails
    /\ UNCHANGED <<raw, dtypes, nrows, reply, dfColumns, table, table0, ddl>>
    /\ UNCHANGED <<svars, hvars>>

\* lines 119 and 123: the with block ends and commits; success is logged
CommitLoad ==
    /\ tpc = "commit"
    /\ table' = [table EXCEPT !.rows = txRows]
    /\ txRows' = 0
    /\ result' = "success"
    /\ tpc' = "end"
    /\ UNCHANGED <<raw, dtypes, nrows, reply, dfColumns, table0, ddl, envFault>>
    /\ UNCHANGED <<svars, hvars>>

TourismNext ==
    \/ Connect
    \/ ReadCsv
    \/ GenerateNames
    \/ CreateTable
    \/ InsertData
    \/ CommitLoad

TourismSpec == TourismInit /\ [][TourismNext]_vars

(***************************************************************************)
(* Claims about the LLM-assisted loader                                    *)
(***************************************************************************)
Unmappable == \E c \in 1..Len(dtypes) : dtypes[c] \notin DOMAIN dtype_mapping

\* C4: when a column has an inferred type without mapping entry, neither the
\* DROP TABLE nor the CREATE TABLE is issued and the destination table is
\* as it was before the run.
C4_FailsBeforeMutation ==
    (Unmappable /\ ~envFault) => (ddl = <<>> /\ table = table0)

\* the collaborator was called and raised
CollaboratorFailed == tpc \in {"create", "insert", "commit", "end"} /\ ~reply.ok
                          /\ raw # <<>>

\* C5: when the collaborator call raises, the columns get the snake-case
\* conversions of the raw labels, in their order and number, and (the
\* store, the driver and the reader working, every type mapped) the run
\* ends with the table created under those names, the rows inserted and
\* success reported.
C5_FallbackCompletes ==
    CollaboratorFailed =>
        /\ dfColumns = [i \in 1..Len(raw) |-> snake_case_convert(raw[i])]
        /\ (tpc = "end" /\ ~envFault /\ ~Unmappable) =>
              /\ result = "success"
              /\ table = [exists |-> TRUE, cols |-> dfColumns, rows |-> nrows]

\* C8: the names given to the columns of a load are pairwise distinct when
\* the raw labels (and the collaborator's names, when used) were.
C8_NamesDistinct ==
    (/\ tpc \in {"create", "insert", "commit"}
     /\ IsInjective(raw)
     /\ reply.ok => IsInjective(reply.names))
        => IsInjective(dfColumns)

(***************************************************************************)
(* The pure functions applied on their own                                 *)
(***************************************************************************)
NameChars == {"a", "b", "A", "B", "1", " ", "-", "_", "("}

NameLabels == UNION { [1..n -> NameChars] : n \in 0..MaxNameLen }

NormalizeInit ==
    /\ SurveyIdle
    /\ TourismIdle
    /\ hpc = "normalize"
    /\ hLabel \in NameLabels
    /\ hIndex = 0
    /\ hOut = <<>>

\* snake_case_convert applied to a label
Normalize ==
    /\ hpc = "normalize"
    /\ hOut' = <<snake_case_convert(hLabel)>>
    /\ hpc' = "again"
    /\ UNCHANGED <<hLabel, hIndex, svars, tvars>>

\* snake_case_convert applied to its own result
NormalizeAgain ==
    /\ hpc = "again"
    /\ hOut' = Append(hOut, snake_case_convert(hOut[1]))
    /\ hpc' = "done"
    /\ UNCHANGED <<hLabel, hIndex, svars, tvars>>

NormalizeNext == Normalize \/ NormalizeAgain

NormalizeSpec == NormalizeInit /\ [][NormalizeNext]_vars

\* C7: snake_case_convert(snake_case_convert(L)) = snake_case_convert(L)
C7_Idempotent == hpc = "done" => hOut[2] = hOut[1]

\* a label that the conversion changed by splitting and by collapsing
C7_Witness ==
    /\ hpc = "done"
    /\ hLabel = <<"a", "B", " ", "_">>
    /\ hOut[1] = <<"a", "_", "b">>

QChars == {"P", "1", "_", "X", " "}

QLabels == UNION { [1..n -> QChars] : n \in 1..MaxQLen }

RegisterInit ==
    /\ SurveyIdle
    /\ TourismIdle
    /\ hpc = "enumerate"
    /\ hLabel \in QLabels
    /\ hIndex \in 0..(MaxIndex - 1)
    /\ hOut = <<>>

\* lines 74-79 of excelToDB.py for the column hLabel at enumerate() index
\* hIndex
EnumerateColumn ==
    /\ hpc = "enumerate"
    /\ hOut' = ColumnItems(hLabel, hIndex)
    /\ hpc' = "done"
    /\ UNCHANGED <<hLabel, hIndex, svars, tvars>>

RegisterSpec == RegisterInit /\ [][EnumerateColumn]_vars

\* the number a column letter denotes in bijective base 26 (A = 1 .. Z = 26)
RECURSIVE LetterValue(_)
LetterValue(l) ==
    IF l = <<>> THEN 0
    ELSE 26 * LetterValue(SubSeq(l, 1, Len(l) - 1))
             + (CHOOSE k \in 1..26 : Alphabet[k] = l[Len(l)])

\* l = "P", d digits, an underscore if one follows the digits, then rest
IsPrefixThenRest(l, d, rest) ==
    /\ d >= 1
    /\ Len(l) >= d + 1
    /\ l[1] = "P"
    /\ \A i \in 2..(d + 1) : l[i] \in DigitChars
    /\ Len(l) >= d + 2 => l[d + 2] \notin DigitChars
    /\ LET u == IF Len(l) >= d + 2 /\ l[d + 2] = "_" THEN 1 ELSE 0
       IN  rest = SubSeq(l, d + 2 + u, Len(l))

\* t is s without its leading and trailing whitespace
IsTrimOf(t, s) ==
    /\ \E i \in 0..Len(s) : \E j \in 0..(Len(s) - i) :
          /\ t = SubSeq(s, i + 1, Len(s) - j)
          /\ \A k \in 1..i : s[k] \in SpaceChars
          /\ \A k \in (Len(s) - j + 1)..Len(s) : s[k] \in SpaceChars
    /\ t # <<>> => (t[1] \notin SpaceChars /\ t[Len(t)] \notin SpaceChars)

Registered == hpc = "done" /\ MatchesPrefix(hLabel)

LetterIsPosition ==
    /\ Len(hOut) = 1
    /\ hOut[1].original_question = hLabel
    /\ \A k \in 1..Len(hOut[1].col_letter) : hOut[1].col_letter[k] \in UpperChars
    /\ LetterValue(hOut[1].col_letter) = hIndex + 1

\* C9 as stated: the position of a prefixed column is the bijective base-26
\* letter of its 1-based position, and the label is the column label with
\* the P<digits> prefix and one following underscore removed.
C9_LabelIsRest ==
    Registered =>
        /\ LetterIsPosition
        /\ \E d \in 1..Len(hLabel) : IsPrefixThenRest(hLabel, d, hOut[1].question)

\* C9 as amended: the label is what follows the prefix and one underscore,
\* without its leading and trailing whitespace.
C9_LabelIsTrimmedRest ==
    Registered =>
        /\ LetterIsPosition
        /\ \E d \in 1..Len(hLabel) :
             \E rest \in {SubSeq(hLabel, i, Len(hLabel)) : i \in 1..(Len(hLabel) + 1)} :
                /\ IsPrefixThenRest(hLabel, d, rest)
                /\ IsTrimOf(hOut[1].question, rest)

\* column 53 (BA) labelled "P1_X"
C9_Witness ==
    /\ hpc = "done"
    /\ hIndex = 52
    /\ hLabel = <<"P", "1", "_", "X">>
    /\ hOut = << [original_question |-> hLabel,
                  question |-> <<"X">>,
                  col_letter |-> <<"B", "A">>] >>

=============================================================================
